---- MODULE Spec2Model ----
(***************************************************************************)
(* Maximum-flow engine of AlgorithmProject-TeamX: the DFS Ford-Fulkerson   *)
(* solver (Algorithms/ford_fulkerson.py), the capacity-scaling solver      *)
(* (Algorithms/scaling _ford_fulkerson.py) and the preflow-push solver     *)
(* (Algorithms/preflow_push.py), run by one caller on the same instance    *)
(* (n, edges, s, t).                                                       *)
(***************************************************************************)
EXTENDS Integers, Sequences, FiniteSets, TLC

\* ---------------------------------------------------------------- bounds
\* largest capacity of an enumerated edge tuple
MaxCap == 2
\* how many times the caller invokes each solver on the same instance
MaxCalls == 2

\* float("inf") of ford_fulkerson.py:24 and of compute_bottleneck/relabel: a
\* value above every finite capacity sum, absorbing under addition (AddInf)
Inf == 1000000000

VARIABLES
    n,           \* node count of the instance
    edges,       \* the edge list: a sequence of <<u, v, capacity>>
    s,           \* source id
    t,           \* sink id
    running,     \* the solver executing now: "none", "pp", "sc" or "ff"
    turn,        \* the solver the caller invokes next ("done" after the last)
    calls,       \* calls[a]: how many calls of solver a have been started
    results,     \* results[a]: the values the calls of solver a returned, in call order
    res,         \* fordFulkMaxFlow: the residual graph, res[u] a sequence of Edge
    max_flow,    \* fordFulkMaxFlow: sum of the bottlenecks pushed so far
    flow,        \* max_flow_scaling: flow[<<u, v>>], the defaultdict(int)
    delta,       \* max_flow_scaling: the current threshold
    self,        \* the PreflowPush object: graph, V, flow, height, excess, active_nodes
    ppc,         \* PreflowPush: control point: "idle", "loop" or "discharge"
    dis          \* PreflowPush.discharge locals: u, v (the for loop's index), pushed

vars == <<n, edges, s, t, running, turn, calls, results,
          res, max_flow, flow, delta, self, ppc, dis>>

instanceVars == <<n, edges, s, t>>
ffVars == <<res, max_flow>>
scVars == <<flow, delta>>
ppVars == <<self, ppc, dis>>

\* Python evaluates an expression once and binds its value to a name:
\* Let(e, F) is F applied to the value of e
Let(e, F(_)) == CHOOSE y \in {F(v) : v \in {e}} : TRUE

Min(a, b) == Let(<<a, b>>, LAMBDA p : IF p[1] <= p[2] THEN p[1] ELSE p[2])
Max(a, b) == Let(<<a, b>>, LAMBDA p : IF p[1] >= p[2] THEN p[1] ELSE p[2])
AddInf(a, b) == IF a = Inf \/ b = Inf THEN Inf ELSE a + b

Nodes(k) == 0 .. (k - 1)
Solvers == {"pp", "sc", "ff"}

\* ------------------------------------------------- ford_fulkerson.py
\* class Edge: to, capacity, rev (rev is the 0-based index into res[to])
Edge(to, capacity, rev) == [to |-> to, capacity |-> capacity, rev |-> rev]

\* addEdge: both rev indices are read before either append
addEdge(r, u, v, capacity) ==
    LET forward == Edge(v, capacity, Len(r[v]))
        backward == Edge(u, 0, Len(r[u]))
        r1 == [r EXCEPT ![u] = Append(@, forward)]
    IN  [r1 EXCEPT ![v] = Append(@, backward)]

RECURSIVE addEdges(_, _, _)
addEdges(r, es, i) ==
    IF i > Len(es) THEN r
    ELSE Let(addEdge(r, es[i][1], es[i][2], es[i][3]),
             LAMBDA r1 : addEdges(r1, es, i + 1))

buildResidualGraph(k, es) == addEdges([x \in Nodes(k) |-> <<>>], es, 1)

\* dfs: the recursion of lines 48-79; dfsLoop is the for loop over res[u]
\* from its i-th edge on.  The result carries the mutated res and visited.
RECURSIVE dfs(_, _, _, _, _), dfsLoop(_, _, _, _, _, _)
dfs(u, sink, flow_limit, r, visited) ==
    IF u = sink
    THEN [pushed |-> flow_limit, res |-> r, visited |-> visited]
    ELSE Let([visited EXCEPT ![u] = TRUE],
             LAMBDA marked : dfsLoop(u, 1, sink, flow_limit, r, marked))

\* dfsPush without lines 75-76: the paired reverse edge is not credited
dfsPush_NoReverse(r, u, i, pushed) ==
    [r EXCEPT ![u][i].capacity = @ - pushed]

dfsPush(r, u, i, pushed) ==
    LET edge == r[u][i]
        r1 == [r EXCEPT ![u][i].capacity = @ - pushed]
    IN  [r1 EXCEPT ![edge.to][edge.rev + 1].capacity = @ + pushed]

dfsLoop(u, i, sink, flow_limit, r, visited) ==
    IF i > Len(r[u])
    THEN [pushed |-> 0, res |-> r, visited |-> visited]
    ELSE LET edge == r[u][i] IN
         IF edge.capacity <= 0 \/ visited[edge.to]
         THEN dfsLoop(u, i + 1, sink, flow_limit, r, visited)
         ELSE Let(Min(flow_limit, edge.capacity), LAMBDA new_limit :
              Let(dfs(edge.to, sink, new_limit, r, visited), LAMBDA sub :
                  IF sub.pushed > 0
                  THEN [pushed |-> sub.pushed,
                        res |-> dfsPush(sub.res, u, i, sub.pushed),
                        visited |-> sub.visited]
                  ELSE dfsLoop(u, i + 1, sink, flow_limit, sub.res, sub.visited)))

\* one search of the while loop of fordFulkMaxFlow (lines 22-24)
Search == dfs(s, t, Inf, res, [x \in Nodes(n) |-> FALSE])

\* the caller of a solver returns: record the value, pass the turn
NextTurn(a) == IF a = "pp" THEN "sc"
               ELSE IF a = "sc" THEN "ff"
               ELSE IF calls["ff"] < MaxCalls THEN "pp" ELSE "done"

Return(a, value) ==
    /\ running' = "none"
    /\ turn' = NextTurn(a)
    /\ results' = [results EXCEPT ![a] = Append(@, value)]
    /\ UNCHANGED calls

CanCall(a) ==
    /\ running = "none"
    /\ turn = a
    /\ calls[a] < MaxCalls

Call(a) ==
    /\ CanCall(a)
    /\ running' = a
    /\ calls' = [calls EXCEPT ![a] = @ + 1]
    /\ UNCHANGED <<turn, results>>

\* fordFulkMaxFlow lines 18-19
FFCall ==
    /\ Call("ff")
    /\ res' = buildResidualGraph(n, edges)
    /\ max_flow' = 0
    /\ UNCHANGED <<instanceVars, scVars, ppVars>>

\* one iteration of the while loop with pushed != 0 (lines 22-29)
FFAugment ==
    /\ running = "ff"
    /\ Search.pushed # 0
    /\ \E found \in {Search} :
          /\ res' = found.res
          /\ max_flow' = AddInf(max_flow, found.pushed)
    /\ UNCHANGED <<instanceVars, running, turn, calls, results, scVars, ppVars>>

\* the iteration with pushed == 0: break and return max_flow (lines 26-31)
FFReturn ==
    /\ running = "ff"
    /\ Search.pushed = 0
    /\ Return("ff", max_flow)
    /\ UNCHANGED <<instanceVars, ffVars, scVars, ppVars>>

\* ---------------------------------------- scaling _ford_fulkerson.py
\* lines 23-26: the largest capacity of a tuple leaving the source
RECURSIVE maxCapacityFrom(_, _, _)
maxCapacityFrom(es, src, i) ==
    IF i > Len(es) THEN 0
    ELSE Let(maxCapacityFrom(es, src, i + 1), LAMBDA rest :
             IF es[i][1] = src THEN Max(es[i][3], rest) ELSE rest)

max_capacity == maxCapacityFrom(edges, s, 1)

\* line 34: 2 ** int(math.log2(x)) for x >= 1
RECURSIVE Pow2Floor(_)
Pow2Floor(x) == IF x < 2 THEN 1 ELSE 2 * Pow2Floor(x \div 2)

\* build_residual_graph: residual[x] holds the forward entries of the tuples
\* leaving x (first loop, lines 42-48), then the backward entries of the tuples
\* entering x (second loop, lines 52-58), each in edge-list order.  Every
\* tuple reads the one flow[(u, v)] of its endpoint pair.
RECURSIVE forwardEntries(_, _, _, _), backwardEntries(_, _, _, _)
forwardEntries(f, delta_threshold, x, i) ==
    IF i > Len(edges) THEN <<>>
    ELSE LET u == edges[i][1]
             v == edges[i][2]
             residual_cap == edges[i][3] - f[<<u, v>>]
             rest == forwardEntries(f, delta_threshold, x, i + 1)
         IN  IF u = x /\ residual_cap >= delta_threshold
             THEN <<[neighbor |-> v, res_cap |-> residual_cap, is_forward |-> TRUE]>> \o rest
             ELSE rest

backwardEntries(f, delta_threshold, x, i) ==
    IF i > Len(edges) THEN <<>>
    ELSE LET u == edges[i][1]
             v == edges[i][2]
             current_flow == f[<<u, v>>]
             rest == backwardEntries(f, delta_threshold, x, i + 1)
         IN  IF v = x /\ current_flow >= delta_threshold
             THEN <<[neighbor |-> u, res_cap |-> current_flow, is_forward |-> FALSE]>> \o rest
             ELSE rest

build_residual_graph(f, delta_threshold) ==
    [x \in Nodes(n) |-> forwardEntries(f, delta_threshold, x, 1)
                        \o backwardEntries(f, delta_threshold, x, 1)]

\* bfs_find_path: bfsLoop is the while loop over the queue, bfsExpand the for
\* loop over residual[node]; info is parent_edge_info.  The path is a sequence
\* of <<prev, current, is_forward>>; found = FALSE stands for None.
RECURSIVE walkBack(_, _, _)
walkBack(info, current, path) ==
    IF current = s THEN path
    ELSE walkBack(info, info[current][1],
                  <<<<info[current][1], current, info[current][2]>>>> \o path)

RECURSIVE bfsLoop(_, _, _, _), bfsExpand(_, _, _, _, _, _)
bfsExpand(residual, node, i, queue, visited, info) ==
    IF i > Len(residual[node]) THEN bfsLoop(residual, queue, visited, info)
    ELSE LET e == residual[node][i] IN
         IF e.neighbor \notin visited
         THEN Let(<<Append(queue, e.neighbor), visited \cup {e.neighbor},
                    [info EXCEPT ![e.neighbor] = <<node, e.is_forward>>]>>,
                  LAMBDA q : bfsExpand(residual, node, i + 1, q[1], q[2], q[3]))
         ELSE bfsExpand(residual, node, i + 1, queue, visited, info)

bfsLoop(residual, queue, visited, info) ==
    IF queue = <<>> THEN [found |-> FALSE, path |-> <<>>]
    ELSE LET node == Head(queue) IN
         IF node = t
         THEN [found |-> TRUE, path |-> walkBack(info, t, <<>>)]
         ELSE bfsExpand(residual, node, 1, Tail(queue), visited, info)

bfs_find_path(residual) ==
    Let(residual, LAMBDA view :
        bfsLoop(view, <<s>>, {s}, [x \in Nodes(n) |-> <<x, FALSE>>]))

\* compute_bottleneck: for every path edge the res_cap of the FIRST entry of
\* residual[u] with that neighbour and direction (lines 105-108)
RECURSIVE firstMatch(_, _, _, _)
firstMatch(entries, v, is_forward, i) ==
    IF i > Len(entries) THEN Inf
    ELSE IF entries[i].neighbor = v /\ entries[i].is_forward = is_forward
         THEN entries[i].res_cap
         ELSE firstMatch(entries, v, is_forward, i + 1)

RECURSIVE compute_bottleneck(_, _, _)
compute_bottleneck(path, residual, i) ==
    IF i > Len(path) THEN Inf
    ELSE Min(firstMatch(residual[path[i][1]], path[i][2], path[i][3], 1),
             compute_bottleneck(path, residual, i + 1))

\* augment_flow (lines 112-120)
RECURSIVE augment_flow(_, _, _, _)
augment_flow(f, path, bottleneck, i) ==
    IF i > Len(path) THEN f
    ELSE LET u == path[i][1]
             v == path[i][2]
         IN  IF path[i][3]
             THEN augment_flow([f EXCEPT ![<<u, v>>] = @ + bottleneck], path, bottleneck, i + 1)
             ELSE augment_flow([f EXCEPT ![<<v, u>>] = @ - bottleneck], path, bottleneck, i + 1)

\* lines 149-152: the flow read for every tuple leaving the source
RECURSIVE flowValue(_, _, _)
flowValue(f, src, i) ==
    IF i > Len(edges) THEN 0
    ELSE (IF edges[i][1] = src THEN f[<<edges[i][1], edges[i][2]>>] ELSE 0)
         + flowValue(f, src, i + 1)

ZeroFlow == [p \in Nodes(n) \X Nodes(n) |-> 0]

\* the inner iteration's view and path (lines 129-132)
Residual == build_residual_graph(flow, delta)
Path == bfs_find_path(Residual)

\* lines 11-34 when some tuple leaving the source has capacity > 0
SCCall ==
    /\ Call("sc")
    /\ max_capacity # 0
    /\ flow' = ZeroFlow
    /\ delta' = Pow2Floor(max_capacity)
    /\ UNCHANGED <<instanceVars, ffVars, ppVars>>

\* lines 29-30: no capacity leaves the source, return 0 at once
SCCallNoSourceCapacity ==
    /\ CanCall("sc")
    /\ max_capacity = 0
    /\ calls' = [calls EXCEPT !["sc"] = @ + 1]
    /\ running' = "none"
    /\ turn' = NextTurn("sc")
    /\ results' = [results EXCEPT !["sc"] = Append(@, 0)]
    /\ flow' = ZeroFlow
    /\ UNCHANGED <<instanceVars, ffVars, delta, ppVars>>

\* an inner iteration that finds a path (lines 129-142)
SCAugment ==
    /\ running = "sc"
    /\ delta >= 1
    /\ Path.found
    /\ flow' = Let(Residual, LAMBDA residual :
                  Let(bfs_find_path(residual), LAMBDA found :
                  Let(compute_bottleneck(found.path, residual, 1), LAMBDA bottleneck :
                      augment_flow(flow, found.path, bottleneck, 1))))
    /\ UNCHANGED <<instanceVars, running, turn, calls, results, delta, ffVars, ppVars>>

\* the inner iteration that finds none: next phase (lines 135-136, 145)
SCPhaseEnd ==
    /\ running = "sc"
    /\ delta >= 1
    /\ ~Path.found
    /\ delta' = delta \div 2
    /\ UNCHANGED <<instanceVars, running, turn, calls, results, flow, ffVars, ppVars>>

\* delta < 1: lines 149-154
SCReturn ==
    /\ running = "sc"
    /\ delta < 1
    /\ Return("sc", flowValue(flow, s, 1))
    /\ UNCHANGED <<instanceVars, ffVars, scVars, ppVars>>

\* --------------------------------------------------- preflow_push.py
\* The adapter that turns (n, edges) into the dense matrix handed to
\* PreflowPush: graph[u][v] is the total capacity of the tuples (u, v, c).
RECURSIVE pairCapacity(_, _, _, _)
pairCapacity(es, u, v, i) ==
    IF i > Len(es) THEN 0
    ELSE (IF es[i][1] = u /\ es[i][2] = v THEN es[i][3] ELSE 0)
         + pairCapacity(es, u, v, i + 1)

CapMatrix(k, es) == [u \in Nodes(k) |-> [v \in Nodes(k) |-> pairCapacity(es, u, v, 1)]]

\* PreflowPush.__init__
PreflowPush(graph) ==
    LET V == Cardinality(DOMAIN graph) IN
    [graph |-> graph,
     V |-> V,
     flow |-> [u \in Nodes(V) |-> [v \in Nodes(V) |-> 0]],
     height |-> [u \in Nodes(V) |-> 0],
     excess |-> [u \in Nodes(V) |-> 0],
     active_nodes |-> <<>>]

\* PreflowPush.push
push(o, u, v) ==
    LET residual_capacity == o.graph[u][v] - o.flow[u][v]
        pdelta == Min(o.excess[u], residual_capacity)
        f1 == [o.flow EXCEPT ![u][v] = @ + pdelta]
        f2 == [f1 EXCEPT ![v][u] = @ - pdelta]
        e1 == [o.excess EXCEPT ![u] = @ - pdelta]
        e2 == [e1 EXCEPT ![v] = @ + pdelta]
    IN  [o EXCEPT !.flow = f2, !.excess = e2]

\* PreflowPush.relabel: min_height over the residual neighbours, Inf if none
RECURSIVE minHeight(_, _, _)
minHeight(o, u, v) ==
    IF v >= o.V THEN Inf
    ELSE IF o.graph[u][v] - o.flow[u][v] > 0
         THEN Min(o.height[v], minHeight(o, u, v + 1))
         ELSE minHeight(o, u, v + 1)

\* relabel that takes the lowest neighbour's height without the + 1 of line 58
relabel_NoIncrement(o, u) ==
    LET min_height == minHeight(o, u, 0) IN
    IF min_height # Inf
    THEN [o EXCEPT !.height[u] = min_height]
    ELSE o

relabel(o, u) ==
    LET min_height == minHeight(o, u, 0) IN
    IF min_height # Inf
    THEN [o EXCEPT !.height[u] = min_height + 1]
    ELSE o

\* the source-saturation loop of solve (lines 89-99) from index v on
RECURSIVE saturate(_, _, _, _)
saturate(o, source, sink, v) ==
    IF v >= o.V THEN o
    ELSE IF o.graph[source][v] > 0
         THEN LET cap == o.graph[source][v]
                  f1 == [o.flow EXCEPT ![source][v] = cap]
                  f2 == [f1 EXCEPT ![v][source] = -cap]
                  e1 == [o.excess EXCEPT ![v] = cap]
                  e2 == [e1 EXCEPT ![source] = @ - cap]
                  a == IF v # sink /\ v # source
                       THEN Append(o.active_nodes, v) ELSE o.active_nodes
              IN  Let([o EXCEPT !.flow = f2, !.excess = e2, !.active_nodes = a],
                      LAMBDA o1 : saturate(o1, source, sink, v + 1))
         ELSE saturate(o, source, sink, v + 1)

\* the test of line 68
Admissible(o, u, v) ==
    /\ o.graph[u][v] - o.flow[u][v] > 0
    /\ o.height[u] = o.height[v] + 1

\* the indices the for loop of discharge still has to visit that pass the test
AdmissibleFrom(o, u, from) == {v \in from .. (o.V - 1) : Admissible(o, u, v)}

SetMin(S) == CHOOSE x \in S : \A y \in S : x <= y

InSeq(x, q) == \E i \in 1 .. Len(q) : q[i] = x

\* enqueue without the "v not in self.active_nodes" test of line 72
enqueue_NoMembershipTest(o, v, source, sink) ==
    IF v # source /\ v # sink /\ o.excess[v] > 0
    THEN [o EXCEPT !.active_nodes = Append(@, v)]
    ELSE o

\* lines 72-73 of discharge: v joins active_nodes after a push
enqueue(o, v, source, sink) ==
    IF v # source /\ v # sink /\ o.excess[v] > 0 /\ ~InSeq(v, o.active_nodes)
    THEN [o EXCEPT !.active_nodes = Append(@, v)]
    ELSE o

NoDischarge == [u |-> 0, v |-> 0, pushed |-> FALSE]

\* solve lines 85-99
PPCall ==
    /\ Call("pp")
    /\ self' = Let([self EXCEPT !.height[s] = self.V, !.active_nodes = <<>>],
                    LAMBDA o : saturate(o, s, t, 0))
    /\ ppc' = "loop"
    /\ dis' = NoDischarge
    /\ UNCHANGED <<instanceVars, ffVars, scVars>>

\* lines 102-105: pop the head and enter discharge; discharge returns at
\* once when the node has no excess (line 64)
PPPop ==
    /\ running = "pp"
    /\ ppc = "loop"
    /\ self.active_nodes # <<>>
    /\ LET u == Head(self.active_nodes) IN
       /\ self' = [self EXCEPT !.active_nodes = Tail(@)]
       /\ IF self.excess[u] > 0
          THEN ppc' = "discharge" /\ dis' = [u |-> u, v |-> 0, pushed |-> FALSE]
          ELSE ppc' = "loop" /\ dis' = NoDischarge
    /\ UNCHANGED <<instanceVars, running, turn, calls, results, ffVars, scVars>>

\* the for loop reaches the next v that passes line 68: lines 69-78
PPPush ==
    /\ running = "pp"
    /\ ppc = "discharge"
    /\ AdmissibleFrom(self, dis.u, dis.v) # {}
    /\ LET u == dis.u
           v == SetMin(AdmissibleFrom(self, dis.u, dis.v))
           o2 == Let(push(self, u, v), LAMBDA o1 : enqueue(o1, v, s, t))
       IN  /\ self' = o2
           /\ IF self'.excess[u] = 0
              THEN ppc' = "loop" /\ dis' = NoDischarge
              ELSE ppc' = "discharge" /\ dis' = [u |-> u, v |-> v + 1, pushed |-> TRUE]
    /\ UNCHANGED <<instanceVars, running, turn, calls, results, ffVars, scVars>>

\* the for loop ends after a push with excess left: next pass (lines 64-66)
PPNextPass ==
    /\ running = "pp"
    /\ ppc = "discharge"
    /\ AdmissibleFrom(self, dis.u, dis.v) = {}
    /\ dis.pushed
    /\ dis' = [u |-> dis.u, v |-> 0, pushed |-> FALSE]
    /\ UNCHANGED <<instanceVars, running, turn, calls, results, ffVars, scVars, self, ppc>>

\* the for loop ends without a push: relabel, next pass (lines 80-81, 64-66)
PPRelabel ==
    /\ running = "pp"
    /\ ppc = "discharge"
    /\ AdmissibleFrom(self, dis.u, dis.v) = {}
    /\ ~dis.pushed
    /\ self' = relabel(self, dis.u)
    /\ dis' = [u |-> dis.u, v |-> 0, pushed |-> FALSE]
    /\ UNCHANGED <<instanceVars, running, turn, calls, results, ffVars, scVars, ppc>>

\* line 107
PPReturn ==
    /\ running = "pp"
    /\ ppc = "loop"
    /\ self.active_nodes = <<>>
    /\ Return("pp", self.excess[t])
    /\ ppc' = "idle"
    /\ UNCHANGED <<instanceVars, ffVars, scVars, self, dis>>

\* ------------------------------------------------------- instances
\* The standalone tests of scaling _ford_fulkerson.py (lines 167-252) and the
\* sanity graph of preflow_push.py (lines 167-176), as edge lists.
ScalingTest1 == [n |-> 4, s |-> 0, t |-> 3,
    edges |-> << <<0, 1, 10>>, <<0, 2, 5>>, <<1, 3, 10>>, <<1, 2, 5>>, <<2, 3, 20>> >>]
ScalingTest2 == [n |-> 4, s |-> 0, t |-> 3,
    edges |-> << <<0, 1, 1000>>, <<0, 2, 500>>, <<1, 3, 1000>>, <<2, 3, 500>> >>]
ScalingTest3 == [n |-> 4, s |-> 0, t |-> 3,
    edges |-> << <<0, 1, 100>>, <<1, 2, 1>>, <<2, 3, 100>> >>]
ScalingTest4 == [n |-> 4, s |-> 0, t |-> 3,
    edges |-> << <<0, 1, 10>>, <<2, 3, 10>> >>]
SanityGraph == [n |-> 6, s |-> 0, t |-> 5,
    edges |-> << <<0, 1, 16>>, <<0, 2, 13>>, <<1, 2, 10>>, <<1, 3, 12>>, <<2, 1, 4>>,
                 <<2, 4, 14>>, <<3, 2, 9>>, <<3, 5, 20>>, <<4, 3, 7>>, <<4, 5, 4>> >>]

Fixtures == {ScalingTest1, ScalingTest2, ScalingTest3, ScalingTest4, SanityGraph}

\* Edge-list shapes whose capacities are enumerated over 0 .. MaxCap:
\* a cross-linked diamond (an augmentation has to undo flow), parallel tuples,
\* self-loops with an antiparallel pair, a cycle that cannot reach the sink,
\* a source with the highest id, the 2-node graph without edges, edges into
\* the source and out of the sink, and calls with source = sink.
Topologies == {
    [n |-> 4, s |-> 0, t |-> 3, ends |-> << <<0, 1>>, <<0, 2>>, <<1, 2>>, <<1, 3>>, <<2, 3>> >>],
    [n |-> 3, s |-> 0, t |-> 2, ends |-> << <<0, 1>>, <<0, 1>>, <<1, 2>>, <<1, 2>>, <<1, 2>> >>],
    [n |-> 3, s |-> 0, t |-> 2, ends |-> << <<0, 0>>, <<0, 1>>, <<1, 1>>, <<1, 0>>, <<1, 2>> >>],
    [n |-> 4, s |-> 0, t |-> 3, ends |-> << <<0, 1>>, <<1, 2>>, <<2, 1>>, <<0, 3>> >>],
    [n |-> 3, s |-> 2, t |-> 0, ends |-> << <<2, 1>>, <<2, 2>>, <<1, 0>>, <<2, 0>> >>],
    [n |-> 2, s |-> 0, t |-> 1, ends |-> << >>],
    [n |-> 3, s |-> 0, t |-> 2, ends |-> << <<1, 0>>, <<0, 1>>, <<2, 1>>, <<1, 2>>, <<0, 2>> >>],
    [n |-> 2, s |-> 0, t |-> 0, ends |-> << <<0, 1>>, <<1, 0>>, <<0, 0>> >>],
    [n |-> 3, s |-> 1, t |-> 1, ends |-> << <<1, 2>>, <<0, 1>> >>] }

InstancesOf(sh) ==
    {[n |-> sh.n, s |-> sh.s, t |-> sh.t,
      edges |-> [i \in 1 .. Len(sh.ends) |-> <<sh.ends[i][1], sh.ends[i][2], c[i]>>]]
        : c \in [1 .. Len(sh.ends) -> 0 .. MaxCap]}

Instances == Fixtures \cup UNION {InstancesOf(sh) : sh \in Topologies}

\* source != sink (node ids in range and capacities >= 0 hold by construction)
WellFormed == s # t

\* --------------------------------------------------- specification
Init ==
    /\ \E inst \in Instances :
        /\ n = inst.n
        /\ edges = inst.edges
        /\ s = inst.s
        /\ t = inst.t
        /\ res = [x \in Nodes(inst.n) |-> <<>>]
        /\ flow = [p \in Nodes(inst.n) \X Nodes(inst.n) |-> 0]
        /\ self = PreflowPush(CapMatrix(inst.n, inst.edges))
    /\ running = "none"
    /\ turn = "pp"
    /\ calls = [a \in Solvers |-> 0]
    /\ results = [a \in Solvers |-> <<>>]
    /\ max_flow = 0
    /\ delta = 0
    /\ ppc = "idle"
    /\ dis = NoDischarge

Next ==
    \/ PPCall
    \/ PPPop
    \/ PPPush
    \/ PPNextPass
    \/ PPRelabel
    \/ PPReturn
    \/ SCCall
    \/ SCCallNoSourceCapacity
    \/ SCAugment
    \/ SCPhaseEnd
    \/ SCReturn
    \/ FFCall
    \/ FFAugment
    \/ FFReturn

Spec == Init /\ [][Next]_vars

\* each solver is synchronous and runs to completion (spec section 5): a step
\* that is enabled is taken
FairSpec == Spec /\ WF_vars(Next)

\* ------------------------------------------------------ reference
\* The capacity of the cut (S, Nodes \ S): every tuple leaving S counts on its
\* own, a self-loop never crosses.  MinCutValue is the least capacity over the
\* cuts with the source inside and the sink outside.
RECURSIVE cutCapacity(_, _)
cutCapacity(S, i) ==
    IF i > Len(edges) THEN 0
    ELSE (IF edges[i][1] \in S /\ edges[i][2] \notin S THEN edges[i][3] ELSE 0)
         + cutCapacity(S, i + 1)

Cuts == {S \cup {s} : S \in SUBSET (Nodes(n) \ {s, t})}

MinCutValue == SetMin({cutCapacity(S, 1) : S \in Cuts})

Returned(a) == Len(results[a]) > 0

RECURSIVE SumSeq(_)
SumSeq(q) == IF q = <<>> THEN 0 ELSE Head(q) + SumSeq(Tail(q))

EdgeIds == 1 .. Len(edges)

\* where addEdge put the pair of the i-th tuple: every earlier tuple with an
\* endpoint x appended one Edge to res[x] per such endpoint
appendsBefore(x, i) ==
    SumSeq([j \in 1 .. (i - 1) |->
              (IF edges[j][1] = x THEN 1 ELSE 0) + (IF edges[j][2] = x THEN 1 ELSE 0)])

posForward(i) == appendsBefore(edges[i][1], i) + 1

\* the flow fordFulkMaxFlow has put on the i-th tuple: capacity minus residual
ffFlow(i) == edges[i][3] - res[edges[i][1]][posForward(i)].capacity

\* the flow max_flow_scaling reads for the i-th tuple
scFlow(i) == flow[<<edges[i][1], edges[i][2]>>]

\* flow into and out of node x, summed over the tuples, for a per-tuple flow
InflowFF(x) == SumSeq([i \in EdgeIds |-> IF edges[i][2] = x THEN ffFlow(i) ELSE 0])
OutflowFF(x) == SumSeq([i \in EdgeIds |-> IF edges[i][1] = x THEN ffFlow(i) ELSE 0])
InflowSC(x) == SumSeq([i \in EdgeIds |-> IF edges[i][2] = x THEN scFlow(i) ELSE 0])
OutflowSC(x) == SumSeq([i \in EdgeIds |-> IF edges[i][1] = x THEN scFlow(i) ELSE 0])

\* nodes reachable from the source over residual edges with capacity > 0
RECURSIVE Reach(_)
Reach(R) ==
    LET R2 == R \cup {res[u][i].to : <<u, i>> \in
                        {p \in R \X (1 .. 2 * Len(edges)) :
                            p[2] <= Len(res[p[1]]) /\ res[p[1]][p[2]].capacity > 0}}
    IN  IF R2 = R THEN R ELSE Reach(R2)

Inner == Nodes(n) \ {s, t}

\* the latest call of solver a has returned and no later call has begun
Finished(a) == calls[a] >= 1 /\ Len(results[a]) = calls[a]
LastResult(a) == results[a][Len(results[a])]

\* ---------------------------------------------------------- claims

\* C1 (as claimed): on a well-formed instance fordFulkMaxFlow, max_flow_scaling
\* and PreflowPush.solve (first call of each) return the same integer.
C1_Agreement ==
    (WellFormed /\ Returned("pp") /\ Returned("sc") /\ Returned("ff"))
        => /\ results["ff"][1] = results["sc"][1]
           /\ results["sc"][1] = results["pp"][1]

\* C2 (as claimed): max_flow_scaling returns the minimum-cut capacity of every
\* well-formed instance, parallel tuples counted as independent capacities,
\* and 15, 1500, 1 and 0 on its four standalone tests.
C2_ScalingMaxFlow ==
    LET inst == [n |-> n, s |-> s, t |-> t, edges |-> edges] IN
    (WellFormed /\ Returned("sc"))
        => /\ results["sc"][1] = MinCutValue
           /\ inst = ScalingTest1 => results["sc"][1] = 15
           /\ inst = ScalingTest2 => results["sc"][1] = 1500
           /\ inst = ScalingTest3 => results["sc"][1] = 1
           /\ inst = ScalingTest4 => results["sc"][1] = 0

\* C3 (as claimed): the first solve on a fresh PreflowPush returns excess[sink]
\* equal to the minimum-cut capacity (23 on the sanity graph), and that value
\* equals the net flow out of the source, the sum over v of flow[source][v].
C3_PreflowMaxFlow ==
    (WellFormed /\ calls["pp"] = 1 /\ Finished("pp"))
        => /\ results["pp"][1] = self.excess[t]
           /\ results["pp"][1] = MinCutValue
           /\ [n |-> n, s |-> s, t |-> t, edges |-> edges] = SanityGraph
                  => results["pp"][1] = 23
           /\ results["pp"][1] = SumSeq([i \in 1 .. n |-> self.flow[s][i - 1]])

\* C4: fordFulkMaxFlow returns the sum of the bottlenecks it pushed, which is
\* the flow its residual graph carries out of the source; on return that sum
\* is the minimum-cut capacity, and the nodes reachable from the source over
\* residual edges with capacity > 0 form a source-sink cut of that capacity.
C4_FordFulkersonMinCut ==
    WellFormed =>
        /\ calls["ff"] >= 1 => max_flow = OutflowFF(s) - InflowFF(s)
        /\ Finished("ff") =>
              /\ LastResult("ff") = max_flow
              /\ LastResult("ff") = MinCutValue
              /\ s \in Reach({s}) /\ t \notin Reach({s})
              /\ cutCapacity(Reach({s}), 1) = LastResult("ff")

\* a returned DFS run with flow on both branches whose residual reach is
\* more than the source alone
C4_Witness ==
    /\ WellFormed
    /\ Finished("ff")
    /\ LastResult("ff") >= 2
    /\ Cardinality(Reach({s})) >= 2
    /\ \E i \in EdgeIds : edges[i][3] > 0 /\ ffFlow(i) = 0

\* C5: on a well-formed instance every solver eventually returns; every
\* successful augmentation of the DFS loop adds at least 1 to max_flow, which
\* never exceeds the maximum flow C; the scaling threshold, once set, only
\* halves; and whenever discharge has to relabel a node (no push in the pass,
\* excess left) the relabel changes the node's height, so discharge does not
\* spin.
C5_Termination ==
    /\ <>(~WellFormed \/ (Returned("pp") /\ Returned("sc") /\ Returned("ff")))
    /\ [](WellFormed /\ running = "ff" => max_flow <= MinCutValue)
    /\ [][(WellFormed /\ running = "ff" /\ running' = "ff") => max_flow' >= max_flow + 1]_vars
    /\ [][(WellFormed /\ running = "sc" /\ running' = "sc" /\ delta' # delta)
              => delta' = delta \div 2]_vars
    /\ []((WellFormed /\ running = "pp" /\ ppc = "discharge" /\ ~dis.pushed
              /\ AdmissibleFrom(self, dis.u, dis.v) = {})
            => /\ self.excess[dis.u] > 0
               /\ relabel(self, dis.u).height[dis.u] # self.height[dis.u])

\* all three have returned on an instance whose sink is cut off, after some
\* node had to climb above the source to hand its excess back
C5_Witness ==
    /\ WellFormed
    /\ Returned("pp") /\ Returned("sc") /\ Returned("ff")
    /\ MinCutValue = 0
    /\ \E u \in Inner : self.height[u] > self.V

\* C6 (as claimed): a call with source = sink is rejected: no solver returns
\* a flow value.
C6_SourceEqualsSinkRejected ==
    s = t => \A a \in Solvers : ~Returned(a)

\* C7 (as claimed): once a solver has started, every input tuple (u, v, c)
\* carries a flow f with 0 <= f <= c: flow[(u, v)] for max_flow_scaling,
\* c minus the forward residual for fordFulkMaxFlow, whose Edge capacities
\* all stay >= 0.
C7_CapacityFeasible ==
    WellFormed =>
        /\ calls["sc"] >= 1 =>
              \A i \in EdgeIds : 0 <= scFlow(i) /\ scFlow(i) <= edges[i][3]
        /\ calls["ff"] >= 1 =>
              /\ \A i \in EdgeIds : 0 <= ffFlow(i) /\ ffFlow(i) <= edges[i][3]
              /\ \A u \in Nodes(n) : \A i \in 1 .. Len(res[u]) : res[u][i].capacity >= 0

\* C8 (as claimed): when a solver has returned, every node other than source
\* and sink has inflow = outflow; for PreflowPush excess[u] = 0 at those
\* nodes; for max_flow_scaling the flow leaving the source equals the flow
\* entering the sink.
C8_Conservation ==
    WellFormed =>
        /\ Finished("pp") => \A u \in Inner : self.excess[u] = 0
        /\ Finished("sc") =>
              /\ \A u \in Inner : InflowSC(u) = OutflowSC(u)
              /\ OutflowSC(s) = InflowSC(t)
        /\ Finished("ff") => \A u \in Inner : InflowFF(u) = OutflowFF(u)

\* C9 (as claimed): a repeated call returns what the first call returned and
\* leaves the graph as it was, for each of the three solvers.
C9_NoStateAcrossCalls ==
    WellFormed =>
        /\ \A a \in Solvers : \A k \in 1 .. Len(results[a]) : results[a][k] = results[a][1]
        /\ self.graph = CapMatrix(n, edges)

\* C10: at every iteration boundary of the main loop of solve, active_nodes
\* has no node twice, holds neither source nor sink, and holds exactly the
\* nodes other than source and sink with excess > 0.
C10_ActiveSet ==
    (WellFormed /\ running = "pp" /\ ppc = "loop") =>
        LET q == self.active_nodes IN
        /\ \A i, j \in 1 .. Len(q) : q[i] = q[j] => i = j
        /\ \A i \in 1 .. Len(q) : q[i] # s /\ q[i] # t
        /\ {q[i] : i \in 1 .. Len(q)} = {u \in Inner : self.excess[u] > 0}

\* a boundary after a discharge, with two nodes queued, the one pushed to
\* among them
C10_Witness ==
    /\ WellFormed
    /\ running = "pp" /\ ppc = "loop"
    /\ Len(self.active_nodes) >= 2
    /\ \E u \in Inner : self.height[u] > 0

\* C11 (as claimed): while PreflowPush runs no height[u] ever decreases, every
\* relabel that discharge executes (lines 80-81: no push in the pass, excess
\* left) strictly increases height[u], and height[u] <= 2*V - 1 in every
\* reachable state.
C11_HeightDiscipline ==
    /\ [][WellFormed => \A u \in Nodes(n) : self'.height[u] >= self.height[u]]_vars
    /\ [][(WellFormed /\ PPRelabel) => self'.height[dis.u] > self.height[dis.u]]_vars
    /\ [](WellFormed => \A u \in Nodes(n) : self.height[u] <= 2 * self.V - 1)

\* C12 (as claimed): after the source saturation of solve and after every push
\* flow[u][v] = -flow[v][u] for all u and v, a capacity matrix with a non-zero
\* diagonal entry at the source included.
C12_FlowAntisymmetry ==
    (WellFormed /\ calls["pp"] >= 1) =>
        \A u, v \in Nodes(n) : self.flow[u][v] = -self.flow[v][u]

\* where addEdge put the backward Edge of the i-th tuple in res[v]: after the
\* forward Edge when the tuple is a self-loop
posBackward(i) ==
    appendsBefore(edges[i][2], i) + 1 + (IF edges[i][1] = edges[i][2] THEN 1 ELSE 0)

\* C13 (as claimed): once fordFulkMaxFlow has built res, every tuple (u, v, c),
\* a self-loop included, has a forward Edge u->v and a backward Edge v->u at
\* the positions the input order gives them, each one's rev is the index of
\* the other, they start at capacities c and 0, and every push of dfs keeps
\* forward.capacity + backward.capacity = c.
C13_ResidualPairing ==
    (WellFormed /\ calls["ff"] >= 1) =>
        /\ \A x \in Nodes(n) : Len(res[x]) = appendsBefore(x, Len(edges) + 1)
        /\ \A i \in EdgeIds :
              LET u == edges[i][1]
                  v == edges[i][2]
                  forward == res[u][posForward(i)]
                  backward == res[v][posBackward(i)]
              IN  /\ forward.to = v
                  /\ backward.to = u
                  /\ forward.rev + 1 = posBackward(i)
                  /\ backward.rev + 1 = posForward(i)
                  /\ forward.capacity + backward.capacity = edges[i][3]
                  /\ (running = "ff" /\ max_flow = 0) =>
                        (forward.capacity = edges[i][3] /\ backward.capacity = 0)

====
